---- MODULE Spec2Model ----
(***************************************************************************)
(* Model of the landing-page editor store (src/app/store/editorStore.ts):  *)
(* the ordered section list, the two selection ids, and the eleven store   *)
(* operations, each translated from its zustand `set` callback.            *)
(*                                                                         *)
(* Arrays are sequences; JavaScript indices are 0-based, so index i of the *)
(* code is position i + 1 of the sequence.  Objects are functions from     *)
(* field names to values, so that the spread merge {...a, ...b} can add    *)
(* and overwrite fields exactly as the code does.                          *)
(*                                                                         *)
(* Further down: the section templates (sectionTemplates module), the      *)
(* exports (exportUtils module) with the Header handlers that start them,  *)
(* each export an async function that runs from one await to the next, the *)
(* slides of document generation, and the drag of the section list.        *)
(***************************************************************************)
EXTENDS Integers, Sequences, FiniteSets, TLC

VARIABLES sections, selectedSectionId, selectedElementId, nextId, lastOp, calls,
          returned, previewRef, view, runs, alerts, requests, slides, active

vars == <<sections, selectedSectionId, selectedElementId, nextId, lastOp, calls,
          returned, previewRef, view, runs, alerts, requests, slides, active>>

(* the state outside the store: the lists the template provider returned,  *)
(* the page with its preview element and its exports, the slides of the    *)
(* presentation built last, and the id of the list item being dragged      *)
page == <<returned, previewRef, view, runs, alerts, requests, slides, active>>

store == <<sections, selectedSectionId, selectedElementId>>

----------------------------------------------------------------------------
(* Bounds of the model                                                     *)

MaxIds == 3
MaxSections == 3
MaxElements == 2
MaxCalls == 5
MaxTemplateCalls == 3
MaxExports == 2

(* ids minted by uuidv4() are numbered in the order they are minted; Ghost *)
(* is an id that is never minted                                           *)
Ids == 1..MaxIds

Ghost == MaxIds + 1

----------------------------------------------------------------------------
(* Values                                                                  *)

Null == 0

Undefined == [undefined |-> TRUE]

IsUndefined(x) == "undefined" \in DOMAIN x

SectionTypes ==
  {"hero", "feature", "pricing", "testimonial", "contact", "footer", "custom"}

ElementTypes == {"text", "image", "button"}

TextFields == {"id", "type", "content", "fontSize", "color", "fontWeight", "textAlign"}

ImageFields == {"id", "type", "src", "alt", "width", "height"}

ButtonFields == {"id", "type", "label", "url", "backgroundColor", "textColor", "borderRadius"}

RequiredFields(type) ==
  CASE type = "text" -> TextFields
    [] type = "image" -> ImageFields
    [] type = "button" -> ButtonFields
    [] OTHER -> {"id", "type"}

(* the three elements the editor constructs (handleAdd*Element)            *)
newElement(type, id) ==
  CASE type = "text" ->
         [id |-> id, type |-> "text", content |-> "default", fontSize |-> "16",
          color |-> "#000000", fontWeight |-> "normal", textAlign |-> "left"]
    [] type = "image" ->
         [id |-> id, type |-> "image", src |-> "placeholder", alt |-> "alt",
          width |-> "100", height |-> "50"]
    [] OTHER ->
         [id |-> id, type |-> "button", label |-> "button", url |-> "#",
          backgroundColor |-> "#1976d2", textColor |-> "#ffffff", borderRadius |-> "4"]

(* { ...obj, ...updates }                                                  *)
Spread(obj, updates) ==
  [k \in (DOMAIN obj) \cup (DOMAIN updates) |->
     IF k \in DOMAIN updates THEN updates[k] ELSE obj[k]]

----------------------------------------------------------------------------
(* Array.prototype.splice as the store uses it                             *)

(* the start argument of splice, normalised against the array length       *)
spliceStart(start, len) ==
  IF start < 0
    THEN (IF len + start < 0 THEN 0 ELSE len + start)
    ELSE (IF start > len THEN len ELSE start)

(* const [removed] = arr.splice(start, 1): the array left and the removed  *)
(* entry, undefined when nothing was removed                               *)
spliceRemove(arr, start) ==
  LET k == spliceStart(start, Len(arr)) IN
    IF k < Len(arr)
      THEN [arr |-> SubSeq(arr, 1, k) \o SubSeq(arr, k + 2, Len(arr)),
            removed |-> arr[k + 1]]
      ELSE [arr |-> arr, removed |-> Undefined]

(* arr.splice(start, 0, item)                                              *)
spliceInsert(arr, start, item) ==
  LET k == spliceStart(start, Len(arr)) IN
    SubSeq(arr, 1, k) \o <<item>> \o SubSeq(arr, k + 1, Len(arr))

(* variant: the two entries are exchanged                                  *)
moveEntry_Swaps(arr, sourceIndex, destinationIndex) ==
  LET s == spliceStart(sourceIndex, Len(arr))
      d == spliceStart(destinationIndex, Len(arr))
  IN IF s < Len(arr) /\ d < Len(arr)
       THEN [i \in 1..Len(arr) |->
               IF i = s + 1 THEN arr[d + 1] ELSE IF i = d + 1 THEN arr[s + 1] ELSE arr[i]]
       ELSE spliceInsert(spliceRemove(arr, sourceIndex).arr, destinationIndex,
                         spliceRemove(arr, sourceIndex).removed)

(* the remove-then-insert pair of moveSection and moveElement              *)
moveEntry(arr, sourceIndex, destinationIndex) ==
  LET r == spliceRemove(arr, sourceIndex) IN
    spliceInsert(r.arr, destinationIndex, r.removed)

----------------------------------------------------------------------------
(* Helpers over the section list                                           *)

HasUndefined(arr) == \E i \in 1..Len(arr) : IsUndefined(arr[i])

(* ids of the entries of a list, Null for an undefined entry               *)
IdsOf(arr) == [i \in 1..Len(arr) |-> IF IsUndefined(arr[i]) THEN Null ELSE arr[i].id]

IdSet(arr) == {IdsOf(arr)[i] : i \in 1..Len(arr)} \ {Null}

(* sections.findIndex(section => section.id === id): the callback reads    *)
(* section.id of every entry up to the first match, which throws a         *)
(* TypeError on an undefined entry                                         *)
findIndexThrows(arr, id) ==
  \E i \in 1..Len(arr) :
     /\ IsUndefined(arr[i])
     /\ \A j \in 1..(i - 1) : IdsOf(arr)[j] # id

(* 0-based index of the first match, -1 when there is none                 *)
findIndex(arr, id) ==
  IF \E i \in 1..Len(arr) : IdsOf(arr)[i] = id
    THEN (CHOOSE i \in 1..Len(arr) :
            IdsOf(arr)[i] = id /\ \A j \in 1..(i - 1) : IdsOf(arr)[j] # id) - 1
    ELSE -1

----------------------------------------------------------------------------
(* The store.  A state is the record of its three data fields; every       *)
(* operation is a callback that returns a partial state, which zustand's   *)
(* set merges into the current one.  A callback that throws sets nothing.  *)

State(secs, selSec, selEl) ==
  [sections |-> secs, selectedSectionId |-> selSec, selectedElementId |-> selEl]

cur == State(sections, selectedSectionId, selectedElementId)

set(st, partial) == Spread(st, partial)

(* variant: the title does not name the type                               *)
defaultTitle_OmitsType(type) == <<"new", "section">>

defaultTitle(type) == <<"new", type, "section">>

(* ---- addSection ---- *)
(* variant: the new section is put in front of the list                    *)
addSectionSet_Prepends(st, type, id) ==
  LET newSection == [id |-> id, type |-> type, title |-> defaultTitle(type),
                     elements |-> <<>>, backgroundColor |-> "#ffffff"]
  IN set(st, [sections |-> <<newSection>> \o st.sections])

addSectionSet(st, type, id) ==
  LET newSection == [id |-> id, type |-> type, title |-> defaultTitle(type),
                     elements |-> <<>>, backgroundColor |-> "#ffffff"]
  IN set(st, [sections |-> Append(st.sections, newSection)])

(* ---- removeSection ---- *)
removeSectionThrows(st, id) == HasUndefined(st.sections)

(* variant: the section selection is cleared by every removal               *)
removeSectionSet_AlwaysClears(st, id) ==
  LET Keep(section) == section.id # id IN
    set(st, [sections |-> SelectSeq(st.sections, Keep),
             selectedSectionId |-> Null])

removeSectionSet(st, id) ==
  LET Keep(section) == section.id # id IN
    set(st, [sections |-> SelectSeq(st.sections, Keep),
             selectedSectionId |->
               IF st.selectedSectionId = id THEN Null ELSE st.selectedSectionId])

(* ---- updateSection ---- *)
updateSectionThrows(st, id) == HasUndefined(st.sections)

updateSectionSet(st, id, updates) ==
  set(st, [sections |->
             [i \in 1..Len(st.sections) |->
                IF st.sections[i].id = id
                  THEN Spread(st.sections[i], updates)
                  ELSE st.sections[i]]])

(* ---- moveSection ---- *)
moveSectionSet(st, sourceIndex, destinationIndex) ==
  set(st, [sections |-> moveEntry(st.sections, sourceIndex, destinationIndex)])

(* ---- selectSection ---- *)
(* variant: the element selection survives a change of section             *)
selectSectionSet_KeepsElement(st, id) ==
  set(st, [selectedSectionId |-> id])

selectSectionSet(st, id) ==
  set(st, [selectedSectionId |-> id, selectedElementId |-> Null])

(* ---- addElement ---- *)
addElementThrows(st, sectionId) == HasUndefined(st.sections)

addElementSet(st, sectionId, element) ==
  set(st, [sections |->
             [i \in 1..Len(st.sections) |->
                IF st.sections[i].id = sectionId
                  THEN Spread(st.sections[i],
                              [elements |-> Append(st.sections[i].elements, element)])
                  ELSE st.sections[i]]])

(* ---- removeElement ---- *)
(* el.id is read for every entry of the element list of a matching section *)
elementCallbackThrows(st, sectionId) ==
  \/ HasUndefined(st.sections)
  \/ \E i \in 1..Len(st.sections) :
        /\ st.sections[i].id = sectionId
        /\ HasUndefined(st.sections[i].elements)

removeElementSet(st, sectionId, elementId) ==
  LET Keep(el) == el.id # elementId IN
    set(st, [sections |->
               [i \in 1..Len(st.sections) |->
                  IF st.sections[i].id = sectionId
                    THEN Spread(st.sections[i],
                                [elements |-> SelectSeq(st.sections[i].elements, Keep)])
                    ELSE st.sections[i]],
             selectedElementId |->
               IF st.selectedElementId = elementId THEN Null ELSE st.selectedElementId])

(* ---- updateElement ---- *)
(* the switch on the stored type tag: all three cases apply the same merge *)
updateOneElement(element, updates) ==
  CASE element.type = "text" -> Spread(element, updates)
    [] element.type = "image" -> Spread(element, updates)
    [] element.type = "button" -> Spread(element, updates)
    [] OTHER -> element

updateElementSet(st, sectionId, elementId, updates) ==
  LET newElements(section) ==
        [j \in 1..Len(section.elements) |->
           IF section.elements[j].id # elementId
             THEN section.elements[j]
             ELSE updateOneElement(section.elements[j], updates)]
  IN set(st, [sections |->
                [i \in 1..Len(st.sections) |->
                   IF st.sections[i].id # sectionId
                     THEN st.sections[i]
                     ELSE Spread(st.sections[i],
                                 [elements |-> newElements(st.sections[i])])]])

(* ---- moveElement ---- *)
moveElementThrows(st, sectionId) == findIndexThrows(st.sections, sectionId)

moveElementSet(st, sectionId, sourceIndex, destinationIndex) ==
  LET sectionIndex == findIndex(st.sections, sectionId) IN
    IF sectionIndex # -1
      THEN set(st, [sections |->
                      [st.sections EXCEPT ![sectionIndex + 1] =
                         Spread(@, [elements |->
                                      moveEntry(@.elements, sourceIndex,
                                                destinationIndex)])]])
      ELSE set(st, [sections |-> st.sections])

(* ---- selectElement, resetSelection ---- *)
selectElementSet(st, id) == set(st, [selectedElementId |-> id])

resetSelectionSet(st) ==
  set(st, [selectedSectionId |-> Null, selectedElementId |-> Null])

----------------------------------------------------------------------------
(* Actions: one per store operation.  lastOp records which operation was   *)
(* called last and whether its callback threw; calls counts the calls.     *)

Called(op, threw) ==
  /\ calls < MaxCalls
  /\ calls' = calls + 1
  /\ lastOp' = [op |-> op, threw |-> threw]
  /\ UNCHANGED page

Commit(st) ==
  /\ sections' = st.sections
  /\ selectedSectionId' = st.selectedSectionId
  /\ selectedElementId' = st.selectedElementId

Init ==
  /\ sections = <<>>
  /\ selectedSectionId = Null
  /\ selectedElementId = Null
  /\ nextId = 1
  /\ lastOp = [op |-> "init", threw |-> FALSE]
  /\ calls = 0
  /\ returned = <<>>
  /\ previewRef = FALSE
  /\ view = [width |-> "", height |-> "", overflow |-> "", position |-> "",
             scrollX |-> 0, scrollY |-> 0]
  /\ runs = <<>>
  /\ alerts = <<>>
  /\ requests = 0
  /\ slides = <<>>
  /\ active = Null

addSection(type) ==
  /\ Called("addSection", FALSE)
  /\ nextId <= MaxIds
  /\ Len(sections) < MaxSections
  /\ Commit(addSectionSet(cur, type, nextId))
  /\ nextId' = nextId + 1

removeSection(id) ==
  /\ Called("removeSection", removeSectionThrows(cur, id))
  /\ Commit(IF removeSectionThrows(cur, id) THEN cur ELSE removeSectionSet(cur, id))
  /\ UNCHANGED nextId

updateSection(id, updates) ==
  /\ Called("updateSection", updateSectionThrows(cur, id))
  /\ Commit(IF updateSectionThrows(cur, id) THEN cur
            ELSE updateSectionSet(cur, id, updates))
  /\ UNCHANGED nextId

moveSection(sourceIndex, destinationIndex) ==
  /\ Called("moveSection", FALSE)
  /\ Len(moveSectionSet(cur, sourceIndex, destinationIndex).sections) <= MaxSections
  /\ Commit(moveSectionSet(cur, sourceIndex, destinationIndex))
  /\ UNCHANGED nextId

selectSection(id) ==
  /\ Called("selectSection", FALSE)
  /\ Commit(selectSectionSet(cur, id))
  /\ UNCHANGED nextId

(* the caller mints the element's id with uuidv4() before the call         *)
addElement(sectionId, element) ==
  /\ Called("addElement", addElementThrows(cur, sectionId))
  /\ element.id <= MaxIds
  /\ \A i \in 1..Len(sections) :
        (~IsUndefined(sections[i]) /\ sections[i].id = sectionId)
          => Len(sections[i].elements) < MaxElements
  /\ Commit(IF addElementThrows(cur, sectionId) THEN cur
            ELSE addElementSet(cur, sectionId, element))
  /\ nextId' = IF element.id = nextId THEN nextId + 1 ELSE nextId

removeElement(sectionId, elementId) ==
  /\ Called("removeElement", elementCallbackThrows(cur, sectionId))
  /\ Commit(IF elementCallbackThrows(cur, sectionId) THEN cur
            ELSE removeElementSet(cur, sectionId, elementId))
  /\ UNCHANGED nextId

updateElement(sectionId, elementId, updates) ==
  /\ Called("updateElement", elementCallbackThrows(cur, sectionId))
  /\ Commit(IF elementCallbackThrows(cur, sectionId) THEN cur
            ELSE updateElementSet(cur, sectionId, elementId, updates))
  /\ UNCHANGED nextId

moveElement(sectionId, sourceIndex, destinationIndex) ==
  /\ Called("moveElement", moveElementThrows(cur, sectionId))
  /\ IF moveElementThrows(cur, sectionId) \/ findIndex(sections, sectionId) = -1
       THEN TRUE
       ELSE Len(moveElementSet(cur, sectionId, sourceIndex, destinationIndex)
                  .sections[findIndex(sections, sectionId) + 1].elements) <= MaxElements
  /\ Commit(IF moveElementThrows(cur, sectionId) THEN cur
            ELSE moveElementSet(cur, sectionId, sourceIndex, destinationIndex))
  /\ UNCHANGED nextId

selectElement(id) ==
  /\ Called("selectElement", FALSE)
  /\ Commit(selectElementSet(cur, id))
  /\ UNCHANGED nextId

resetSelection ==
  /\ Called("resetSelection", FALSE)
  /\ Commit(resetSelectionSet(cur))
  /\ UNCHANGED nextId

(* Arguments.  An id argument is the id of something in the store or an   *)
(* id that names nothing (Ghost stands for every such string).             *)

(* ids of the elements of every section                                    *)
ElementIdSet ==
  UNION {IdSet(sections[i].elements) :
           i \in {j \in 1..Len(sections) : ~IsUndefined(sections[j])}}

SectionIdArgs == IdSet(sections) \cup {Ghost}

(* An index argument is a position of the list, one below the first (-1)   *)
(* or one past the last.                                                   *)
Indices == -1..Len(sections)

ElementIndices(sectionId) ==
  IF findIndexThrows(sections, sectionId) \/ findIndex(sections, sectionId) = -1
    THEN {0}
    ELSE -1..Len(sections[findIndex(sections, sectionId) + 1].elements)

ElementIdArgs == ElementIdSet \cup {Ghost}

(* section types passed to addSection: the store copies the type into the  *)
(* section and its title and never branches on it, so one type is drawn    *)
SectionTypeArgs == {"hero"}

(* Partial<Section> values passed to updateSection: a field the editor     *)
(* form edits, and a replacement of the element list                       *)
SectionUpdates == {[title |-> <<"edited">>], [elements |-> <<>>]}

(* Partial<TextElement | ImageElement | ButtonElement> values passed to    *)
(* updateElement: a field the editor form edits, a type tag, an id         *)
ElementUpdates ==
  {[content |-> "edited"], [type |-> "image"]} \cup {[id |-> i] : i \in ElementIdArgs}

(* elements passed to addElement: built as the editor builds them, with a  *)
(* newly minted id                                                         *)
NewElements == {newElement(type, nextId) : type \in ElementTypes}

Next ==
  \/ \E type \in SectionTypeArgs : addSection(type)
  \/ \E id \in SectionIdArgs : removeSection(id)
  \/ \E id \in SectionIdArgs, updates \in SectionUpdates : updateSection(id, updates)
  \/ \E sourceIndex \in Indices, destinationIndex \in Indices :
        moveSection(sourceIndex, destinationIndex)
  \/ \E id \in SectionIdArgs : selectSection(id)
  \/ \E sectionId \in SectionIdArgs, element \in NewElements :
        addElement(sectionId, element)
  \/ \E sectionId \in SectionIdArgs, elementId \in ElementIdArgs :
        removeElement(sectionId, elementId)
  \/ \E sectionId \in SectionIdArgs, elementId \in ElementIdArgs,
        updates \in ElementUpdates :
        updateElement(sectionId, elementId, updates)
  \/ \E sectionId \in SectionIdArgs :
        \E sourceIndex \in ElementIndices(sectionId),
           destinationIndex \in ElementIndices(sectionId) :
          moveElement(sectionId, sourceIndex, destinationIndex)
  \/ \E id \in ElementIdArgs : selectElement(id)
  \/ resetSelection

Spec == Init /\ [][Next]_vars

----------------------------------------------------------------------------
(* Properties of the store                                                 *)

(* ids of the elements of the sections of secs whose id is sectionId       *)
ElementIdsIn(secs, sectionId) ==
  UNION {IdSet(secs[i].elements) :
           i \in {j \in 1..Len(secs) :
                    ~IsUndefined(secs[j]) /\ secs[j].id = sectionId}}

(* C1: in every reachable state, a non-null selectedElementId comes with a *)
(* non-null selectedSectionId that names a section of the list, and that   *)
(* section holds an element with the selected id.                          *)
C1_SelectedElementInSelectedSection ==
  selectedElementId # Null =>
    /\ selectedSectionId # Null
    /\ selectedSectionId \in IdSet(sections)
    /\ selectedElementId \in ElementIdsIn(sections, selectedSectionId)

(* C7: every selectSection(id) step ends with selectedSectionId = id and   *)
(* selectedElementId = null, and leaves sections as they were.             *)
C7_SelectSectionClearsElement ==
  [][\A id \in SectionIdArgs :
       selectSection(id) =>
         /\ selectedSectionId' = id
         /\ selectedElementId' = Null
         /\ sections' = sections]_vars

(* selectSection has just chosen a section that holds elements, none of    *)
(* which is selected                                                       *)
C7_Witness ==
  /\ lastOp.op = "selectSection"
  /\ selectedSectionId \in IdSet(sections)
  /\ ElementIdsIn(sections, selectedSectionId) # {}
  /\ selectedElementId = Null

----------------------------------------------------------------------------
(* The plain ordered-sequence model of the section order: ids only, with   *)
(* 0-based positions as in the calls.                                      *)

RefAppend(order, id) == order \o <<id>>

RefDelete(order, id) ==
  LET Other(x) == x # id IN SelectSeq(order, Other)

(* the sequence without its entry at position index                        *)
RemoveIndex(seq, index) ==
  [i \in 1..(Len(seq) - 1) |-> IF i <= index THEN seq[i] ELSE seq[i + 1]]

(* the sequence with item put at position index                            *)
InsertIndex(seq, index, item) ==
  [i \in 1..(Len(seq) + 1) |->
     IF i <= index THEN seq[i] ELSE IF i = index + 1 THEN item ELSE seq[i - 1]]

RefMove(order, fromIndex, toIndex) ==
  InsertIndex(RemoveIndex(order, fromIndex), toIndex, order[fromIndex + 1])

InRange(index, seq) == index \in 0..(Len(seq) - 1)

(* C2: every addSection, removeSection and in-range moveSection step       *)
(* changes the order of section ids exactly as the same call changes the   *)
(* plain sequence model (append, delete the entry with that id, remove at  *)
(* fromIndex then insert at toIndex); step by step, so the two orders      *)
(* agree after every sequence of such calls.                               *)
C2_SectionOrderFollowsSequenceModel ==
  [][/\ lastOp'.op = "addSection" =>
          \A type \in SectionTypes :
             addSection(type) => IdsOf(sections') = RefAppend(IdsOf(sections), nextId)
     /\ (lastOp'.op = "removeSection" /\ ~HasUndefined(sections)) =>
          \A id \in SectionIdArgs :
             removeSection(id) => IdsOf(sections') = RefDelete(IdsOf(sections), id)
     /\ lastOp'.op = "moveSection" =>
          \A fromIndex \in Indices, toIndex \in Indices :
             (InRange(fromIndex, sections) /\ InRange(toIndex, sections)
                /\ moveSection(fromIndex, toIndex))
               => IdsOf(sections') = RefMove(IdsOf(sections), fromIndex, toIndex)]_vars

(* three sections were added and then reordered by moveSection             *)
C2_Witness ==
  /\ lastOp.op = "moveSection"
  /\ IdsOf(sections) = <<3, 1, 2>>

(* C3: an in-range moveSection(fromIndex, toIndex) step keeps the length,  *)
(* puts the section formerly at fromIndex at toIndex and keeps the others  *)
(* in their relative order; on a list [A, B, C], moveSection(0, 2) gives   *)
(* [B, C, A].                                                              *)
C3_MoveSectionPermutes ==
  [][lastOp'.op = "moveSection" =>
       \A fromIndex \in Indices, toIndex \in Indices :
          (InRange(fromIndex, sections) /\ InRange(toIndex, sections)
             /\ moveSection(fromIndex, toIndex))
            => /\ Len(sections') = Len(sections)
               /\ sections'[toIndex + 1] = sections[fromIndex + 1]
               /\ RemoveIndex(sections', toIndex) = RemoveIndex(sections, fromIndex)
               /\ (Len(sections) = 3 /\ fromIndex = 0 /\ toIndex = 2)
                    => sections' = <<sections[2], sections[3], sections[1]>>]_vars

(* the sections minted first, second and third stand in the order          *)
(* [B, C, A] after a moveSection                                           *)
C3_Witness ==
  /\ lastOp.op = "moveSection"
  /\ ~lastOp.threw
  /\ IdsOf(sections) = <<2, 3, 1>>

(* C4: a moveSection step with fromIndex or toIndex outside 0..n-1 throws  *)
(* and leaves the section list as it was: same length, no entry that was   *)
(* not in the list before.                                                 *)
C4_MoveSectionRejectsOutOfRange ==
  [][\A fromIndex \in Indices, toIndex \in Indices :
       (moveSection(fromIndex, toIndex)
          /\ ~(InRange(fromIndex, sections) /\ InRange(toIndex, sections)))
         => /\ lastOp'.threw
            /\ Len(sections') = Len(sections)
            /\ \A i \in 1..Len(sections') :
                  \E j \in 1..Len(sections) : sections'[i] = sections[j]
            /\ sections' = sections]_vars

(* what a second removeSection(id) would make of the state st              *)
removeSectionAgain(st, id) ==
  IF removeSectionThrows(st, id) THEN st ELSE removeSectionSet(st, id)

(* C5 as stated: after a removeSection(id) step a second removeSection(id) *)
(* changes nothing, and a removeSection(id) step with an id that names no  *)
(* section leaves sections, selectedSectionId and selectedElementId as     *)
(* they were.                                                              *)
C5_RemoveSectionAbsentIsNoOp ==
  [][\A id \in SectionIdArgs :
       removeSection(id) =>
         /\ removeSectionAgain(cur', id) = cur'
         /\ id \notin IdSet(sections) => UNCHANGED store]_vars

(* C5 amended: a second removeSection(id) changes nothing; a step with an  *)
(* id that names no section leaves sections and selectedElementId as they  *)
(* were, and leaves selectedSectionId as it was unless it equals id, in    *)
(* which case it becomes null (a call whose callback throws on an          *)
(* undefined list entry changes nothing at all).                           *)
C5_RemoveSectionIdempotent ==
  [][\A id \in SectionIdArgs :
       removeSection(id) =>
         /\ removeSectionAgain(cur', id) = cur'
         /\ id \notin IdSet(sections) =>
              /\ sections' = sections
              /\ selectedElementId' = selectedElementId
              /\ selectedSectionId' =
                   IF selectedSectionId = id /\ ~HasUndefined(sections)
                     THEN Null ELSE selectedSectionId]_vars

(* removeSection has run while every section ever added is still in the    *)
(* list, so its id named no section; a section is selected                 *)
C5_Witness ==
  /\ lastOp.op = "removeSection"
  /\ ~lastOp.threw
  /\ Len(sections) >= 2
  /\ IdSet(sections) = 1..(nextId - 1)
  /\ selectedSectionId \in IdSet(sections)

(* C6: a removeSection(id) step that completes removes the section; when  *)
(* id is the selected section, selectedSectionId becomes null and          *)
(* selectedElementId does not name an element of the removed section;      *)
(* otherwise the selection is unchanged.                                   *)
C6_RemoveSectionClearsSelection ==
  [][\A id \in SectionIdArgs :
       (removeSection(id) /\ ~lastOp'.threw) =>
         /\ id \notin IdSet(sections')
         /\ id = selectedSectionId =>
              /\ selectedSectionId' = Null
              /\ selectedElementId' \notin ElementIdsIn(sections, id)
         /\ id # selectedSectionId =>
              UNCHANGED <<selectedSectionId, selectedElementId>>]_vars

(* the element lists of the sections, as lists of ids; an undefined        *)
(* section has none                                                        *)
ElementsAt(secs, i) == IF IsUndefined(secs[i]) THEN <<>> ELSE secs[i].elements

(* the positions (section, element) that hold an element in secs           *)
ElementPositions(secs) ==
  {<<i, j>> \in (1..Len(secs)) \X (1..(MaxElements + 1)) :
     j <= Len(ElementsAt(secs, i)) /\ ~IsUndefined(ElementsAt(secs, i)[j])}

(* C8: an updateElement step leaves the type tag of every element as it   *)
(* was, and an element that had the fields of its type keeps them.         *)
C8_UpdateElementKeepsType ==
  [][lastOp'.op = "updateElement" =>
       \A pos \in ElementPositions(sections) :
          LET old == sections[pos[1]].elements[pos[2]]
              new == sections'[pos[1]].elements[pos[2]]
          IN /\ new.type = old.type
             /\ RequiredFields(old.type) \subseteq DOMAIN old
                  => RequiredFields(old.type) \subseteq DOMAIN new]_vars

(* C9: an updateElement or updateSection step leaves the id of every       *)
(* element that is still at its place as it was.                           *)
C9_ElementIdImmutable ==
  [][lastOp'.op \in {"updateElement", "updateSection"} =>
       \A pos \in ElementPositions(sections) \cap ElementPositions(sections') :
          sections'[pos[1]].elements[pos[2]].id = sections[pos[1]].elements[pos[2]].id]_vars

(* C10: no element id occurs at two places of the store, neither in two    *)
(* sections nor twice in one section.                                      *)
C10_ElementIdsUnique ==
  \A p \in ElementPositions(sections), q \in ElementPositions(sections) :
     sections[p[1]].elements[p[2]].id = sections[q[1]].elements[q[2]].id => p = q

----------------------------------------------------------------------------
(* The section templates (sectionTemplates module).  Texts are written in  *)
(* ASCII; every other field value is the literal of the source.            *)

TextElement(id, content, fontSize, color, fontWeight, textAlign) ==
  [id |-> id, type |-> "text", content |-> content, fontSize |-> fontSize,
   color |-> color, fontWeight |-> fontWeight, textAlign |-> textAlign]

ImageElement(id, src, alt, width, height) ==
  [id |-> id, type |-> "image", src |-> src, alt |-> alt,
   width |-> width, height |-> height]

ButtonElement(id, label, url, backgroundColor, textColor, borderRadius) ==
  [id |-> id, type |-> "button", label |-> label, url |-> url,
   backgroundColor |-> backgroundColor, textColor |-> textColor,
   borderRadius |-> borderRadius]

(* a variant that mints one id per call and gives it to every element      *)
getSectionTemplateElements_OneId(type, createId) ==
  IF type = "footer"
    THEN << TextElement(createId, "copyright", "14", "#666666", "normal", "center"),
            TextElement(createId, "policy links", "14", "#1976d2", "normal", "center") >>
    ELSE << TextElement(createId, "heading", "36", "#333333", "bold", "center"),
            TextElement(createId, "lead", "20", "#666666", "normal", "center") >>

(* getSectionTemplateElements(type), with createId the number of the first *)
(* uuid the call mints; the k-th createId() of the call returns            *)
(* createId + k - 1                                                        *)
getSectionTemplateElements(type, createId) ==
  CASE type = "hero" ->
         << TextElement(createId, "hero heading", "48", "#333333", "bold", "center"),
            TextElement(createId + 1, "hero lead", "24", "#666666", "normal", "center"),
            ImageElement(createId + 2, "placeholder 1200x600", "hero image", "100", "auto"),
            ButtonElement(createId + 3, "start now", "#contact", "#1976d2", "#ffffff", "4") >>
    [] type = "feature" ->
         << TextElement(createId, "feature heading", "36", "#333333", "bold", "center"),
            TextElement(createId + 1, "feature lead", "20", "#666666", "normal", "center"),
            TextElement(createId + 2, "quality", "18", "#333333", "normal", "left"),
            TextElement(createId + 3, "support", "18", "#333333", "normal", "left"),
            TextElement(createId + 4, "customizing", "18", "#333333", "normal", "left") >>
    [] type = "pricing" ->
         << TextElement(createId, "pricing heading", "36", "#333333", "bold", "center"),
            TextElement(createId + 1, "pricing lead", "20", "#666666", "normal", "center"),
            TextElement(createId + 2, "standard plan", "24", "#333333", "bold", "center"),
            TextElement(createId + 3, "premium plan", "24", "#333333", "bold", "center"),
            ButtonElement(createId + 4, "details", "#contact", "#1976d2", "#ffffff", "4") >>
    [] type = "testimonial" ->
         << TextElement(createId, "testimonial heading", "36", "#333333", "bold", "center"),
            TextElement(createId + 1, "quote", "20", "#666666", "normal", "center"),
            TextElement(createId + 2, "customer name", "16", "#999999", "normal", "center"),
            ImageElement(createId + 3, "placeholder 150x150", "customer photo", "30", "auto") >>
    [] type = "contact" ->
         << TextElement(createId, "contact heading", "36", "#333333", "bold", "center"),
            TextElement(createId + 1, "contact lead", "20", "#666666", "normal", "center"),
            TextElement(createId + 2, "mail and phone", "18", "#333333", "normal", "center"),
            ButtonElement(createId + 3, "send mail", "mailto:info@example.com",
                          "#1976d2", "#ffffff", "4") >>
    [] type = "footer" ->
         << TextElement(createId, "copyright", "14", "#666666", "normal", "center"),
            TextElement(createId + 1, "policy links", "14", "#1976d2", "normal", "center") >>
    [] OTHER ->
         << TextElement(createId, "custom heading", "36", "#333333", "bold", "center"),
            TextElement(createId + 1, "custom lead", "20", "#666666", "normal", "center") >>

getSectionBackgroundColor(type) ==
  CASE type = "hero" -> "#f5f9ff"
    [] type = "feature" -> "#ffffff"
    [] type = "pricing" -> "#f5f5f5"
    [] type = "testimonial" -> "#f0f7ff"
    [] type = "contact" -> "#ffffff"
    [] type = "footer" -> "#333333"
    [] OTHER -> "#ffffff"

(* an element without its id: its kind and contents                        *)
WithoutId(element) == [k \in DOMAIN element \ {"id"} |-> element[k]]

(* the kinds and contents of a list of elements, in order                  *)
KindsOf(elements) == [i \in 1..Len(elements) |-> WithoutId(elements[i])]

----------------------------------------------------------------------------
(* Properties of addSection and of the templates                           *)

C12_AddSectionUsesTemplate ==
  [][lastOp'.op = "addSection" =>
       \A type \in SectionTypes :
          addSection(type) =>
            /\ KindsOf(sections'[Len(sections')].elements)
                 = KindsOf(getSectionTemplateElements(type, nextId))
            /\ sections'[Len(sections')].backgroundColor
                 = getSectionBackgroundColor(type)]_vars

----------------------------------------------------------------------------
(* Calls of the template provider on their own.  uuidv4 is the counter     *)
(* nextId, as in the store.                                                *)

(* one call getSectionTemplateElements(type): the list it returns is       *)
(* recorded with the type it was asked for                                 *)
templateCall(type) ==
  LET elements == getSectionTemplateElements(type, nextId) IN
    /\ Len(returned) < MaxTemplateCalls
    /\ returned' = Append(returned, [type |-> type, elements |-> elements])
    /\ nextId' = nextId + Len(elements)
    /\ UNCHANGED <<store, lastOp, calls, previewRef, view, runs, alerts, requests,
                    slides, active>>

TemplateNext == \E type \in SectionTypes : templateCall(type)

TemplateSpec == Init /\ [][TemplateNext]_vars

(* the places (call, position) of the elements returned so far             *)
ReturnedPlaces ==
  {<<i, a>> \in (1..Len(returned)) \X (1..5) : a <= Len(returned[i].elements)}

(* C13: every list the template provider returned has the kinds and        *)
(* contents of its type, whatever ids were minted before the call, and no  *)
(* id stands at two places of the returned lists, neither twice in one     *)
(* list nor in the lists of two calls.                                     *)
C13_TemplateIdsFresh ==
  /\ \A i \in 1..Len(returned) :
        KindsOf(returned[i].elements)
          = KindsOf(getSectionTemplateElements(returned[i].type, 1))
  /\ \A p \in ReturnedPlaces, q \in ReturnedPlaces :
        returned[p[1]].elements[p[2]].id = returned[q[1]].elements[q[2]].id
          => p = q

(* the provider was called twice for the same type                         *)
C13_Witness ==
  /\ Len(returned) >= 2
  /\ returned[1].type = returned[2].type
  /\ Len(returned[1].elements) >= 2

----------------------------------------------------------------------------
(* The exports (exportUtils module) and the Header handlers that start     *)
(* them.  An export is an async function: it runs from one await to the    *)
(* next without interruption and is suspended at the await until the       *)
(* awaited library promise settles.  A run records the function, the       *)
(* await it is suspended at (pc) and its live local variables.             *)

Formats == {"pptx", "html", "svg", "png"}

(* the inline styles an export saves and restores                          *)
styleOf(v) ==
  [width |-> v.width, height |-> v.height,
   overflow |-> v.overflow, position |-> v.position]

(* rootElement.style.width = `${rootElement.scrollWidth}px` and the three  *)
(* assignments after it                                                    *)
forceFullExtent(v) ==
  [v EXCEPT !.width = "scrollWidth px", !.height = "scrollHeight px",
            !.overflow = "visible", !.position = "relative"]

(* rootElement.style.width = originalWidth and the three after it          *)
restoreStyle(v, original) ==
  [v EXCEPT !.width = original.width, !.height = original.height,
            !.overflow = original.overflow, !.position = original.position]

(* window.scrollTo(x, y)                                                   *)
scrollTo(v, x, y) == [v EXCEPT !.scrollX = x, !.scrollY = y]

NoStyle == [width |-> "", height |-> "", overflow |-> "", position |-> ""]

(* a run that has just been called.  scrollXAtCall, failed and fallback    *)
(* are not variables of the code: scrollXAtCall is window.scrollX as it    *)
(* was when exportToSvg or exportToPng was called, failed collects the     *)
(* formats whose producer threw in this run, fallback tells that toSvg     *)
(* threw and html2canvas was used.                                         *)
newRun(fn, formats) ==
  [fn |-> fn, formats |-> formats, pc |-> "start", zip |-> <<>>,
   original |-> NoStyle, originalScrollTop |-> 0, downloaded |-> FALSE,
   scrollXAtCall |-> 0, failed |-> {}, fallback |-> FALSE]

(* a run that has returned: its promise is fulfilled ("done") or rejected; *)
(* its saved styles are dead                                               *)
finished(run, pc, downloaded) ==
  [run EXCEPT !.pc = pc, !.downloaded = downloaded, !.scrollXAtCall = 0,
              !.original = NoStyle, !.originalScrollTop = 0]

InFlight(run) == run.pc \notin {"done", "rejected"}

(* the state an export step works on: the run, the view and the alerts     *)
Ctx(run, v, shown) == [run |-> run, view |-> v, alerts |-> shown]

(* const originalWidth = rootElement.style.width ... and the forcing of    *)
(* the full extent, then the await named by pc                             *)
saveAndForce(c, pc) ==
  [c EXCEPT !.run.original = styleOf(c.view),
            !.run.pc = pc,
            !.view = forceFullExtent(c.view)]

(* zip.file(path, data): JSZip keeps its entries in insertion order        *)
zipFile_InFront(zip, path) == <<path>> \o zip

zipFile(zip, path) == Append(zip, path)

(* a producer of the run threw                                             *)
fails(c, format) == [c EXCEPT !.run.failed = @ \cup {format}]

(* ---- exportToAllFormats ---- *)
(* await zip.generateAsync                                                 *)
bundleZip(c) == [c EXCEPT !.run.pc = "generateAsync"]

(* if (formats.includes('png')): up to await toPng                         *)
bundlePng(c) ==
  IF "png" \in c.run.formats THEN saveAndForce(c, "toPng") ELSE bundleZip(c)

(* variant: the vector step is left out when png is selected too           *)
bundleSvg_UnlessPng(c) ==
  IF "svg" \in c.run.formats /\ "png" \notin c.run.formats
    THEN saveAndForce(c, "toSvg") ELSE bundlePng(c)

(* if (formats.includes('svg')): up to await toSvg                         *)
bundleSvg(c) ==
  IF "svg" \in c.run.formats THEN saveAndForce(c, "toSvg") ELSE bundlePng(c)

(* if (formats.includes('pptx')): the slides are built, up to              *)
(* await pptx.write                                                        *)
bundlePptx(c) ==
  IF "pptx" \in c.run.formats THEN [c EXCEPT !.run.pc = "pptx.write"]
                              ELSE bundleSvg(c)

(* if (formats.includes('html')): zip.file('html/index.html', ...)         *)
bundleHtml(c) ==
  IF "html" \in c.run.formats
    THEN bundlePptx([c EXCEPT !.run.zip = zipFile(@, "html/index.html")])
    ELSE bundlePptx(c)

(* the call: from the first line to the first await                        *)
exportToAllFormats(v, shown, formats) ==
  bundleHtml(Ctx(newRun("exportToAllFormats", formats), v, shown))

(* the awaited promise settles: outcome "ok" gives its value, "throws"     *)
(* rejects it.  fetch stands for await fetch(...) and await                *)
(* response.blob(), between which the run touches nothing.                 *)
resumeAllFormats(c, outcome) ==
  LET pc == c.run.pc
      restored == [c EXCEPT !.view = restoreStyle(c.view, c.run.original)]
  IN
  CASE pc = "pptx.write" ->
         IF outcome = "ok"
           THEN bundleSvg([c EXCEPT !.run.zip = zipFile(@, "pptx/presentation.pptx")])
           ELSE [c EXCEPT !.run = finished(fails(c, "pptx").run, "rejected", FALSE)]
    [] pc = "toSvg" ->
         IF outcome = "ok"
           THEN [restored EXCEPT !.run.pc = "fetch svg"]
           ELSE [c EXCEPT !.run.pc = "html2canvas", !.run.fallback = TRUE]
    [] pc = "html2canvas" ->
         IF outcome = "ok"
           THEN [restored EXCEPT !.run.pc = "fetch svg"]
           ELSE bundlePng(fails(c, "svg"))
    [] pc = "fetch svg" ->
         IF outcome = "ok"
           THEN bundlePng([c EXCEPT !.run.zip = zipFile(@, "svg/export.svg")])
           ELSE bundlePng(fails(c, "svg"))
    [] pc = "toPng" ->
         IF outcome = "ok"
           THEN [restored EXCEPT !.run.pc = "fetch png"]
           ELSE bundleZip(fails(c, "png"))
    [] pc = "fetch png" ->
         IF outcome = "ok"
           THEN bundleZip([c EXCEPT !.run.zip = zipFile(@, "png/export.png")])
           ELSE bundleZip(fails(c, "png"))
    [] pc = "generateAsync" ->
         IF outcome = "ok"
           THEN [c EXCEPT !.run = finished(c.run, "done", TRUE)]
           ELSE [c EXCEPT !.run = finished(c.run, "rejected", FALSE)]

(* ---- exportToSvg, exportToPng ---- *)
(* the finally block: the styles and the scroll position are put back      *)
finallyRestore(c) ==
  [c EXCEPT !.view = scrollTo(restoreStyle(c.view, c.run.original),
                              0, c.run.originalScrollTop)]

(* the call: styles and window.scrollY are saved, the full extent is       *)
(* forced, up to the await of the capture                                  *)
captureStart(fn, format, pc, v, shown) ==
  LET c == saveAndForce(Ctx(newRun(fn, {format}), v, shown), pc)
  IN [c EXCEPT !.run.originalScrollTop = v.scrollY,
               !.run.scrollXAtCall = v.scrollX]

exportToSvg(v, shown) == captureStart("exportToSvg", "svg", "toSvg", v, shown)

exportToPng(v, shown) == captureStart("exportToPng", "png", "toPng", v, shown)

(* the file is handed to the browser, then the finally block               *)
captureDelivered(c) ==
  LET f == finallyRestore(c) IN [f EXCEPT !.run = finished(f.run, "done", TRUE)]

(* the capture threw: the finally block, then the catch block with its     *)
(* alert; the promise of the export is fulfilled                           *)
captureFailed(c, format, notice) ==
  LET f == finallyRestore(fails(c, format))
  IN [f EXCEPT !.run = finished(f.run, "done", FALSE),
               !.alerts = Append(@, notice)]

(* variant: a failure of toSvg ends the export                             *)
resumeSvg_NoFallback(c, outcome) ==
  IF outcome = "ok" THEN captureDelivered(c)
                    ELSE captureFailed(c, "svg", "SVG export failed")

resumeSvg(c, outcome) ==
  IF c.run.pc = "toSvg"
    THEN IF outcome = "ok"
           THEN captureDelivered(c)
           ELSE [c EXCEPT !.run.pc = "html2canvas", !.run.fallback = TRUE]
    ELSE IF outcome = "ok"
           THEN captureDelivered(c)
           ELSE captureFailed(c, "svg", "SVG export failed")

resumePng(c, outcome) ==
  IF outcome = "ok" THEN captureDelivered(c)
                    ELSE captureFailed(c, "png", "PNG export failed")

(* ---- exportToPowerPoint, exportToHtml ---- *)
(* the slides are built and pptx.writeFile is called without await: the    *)
(* run stands for the promise of writeFile                                 *)
exportToPowerPoint(v, shown) ==
  [Ctx(newRun("exportToPowerPoint", {"pptx"}), v, shown) EXCEPT !.run.pc = "writeFile"]

(* up to await zip.generateAsync                                           *)
exportToHtml(v, shown) ==
  [Ctx(newRun("exportToHtml", {"html"}), v, shown) EXCEPT
     !.run.zip = zipFile(@, "index.html"), !.run.pc = "generateAsync"]

(* neither function catches: a rejection is reported nowhere               *)
resumeUncaught(c, format, outcome) ==
  IF outcome = "ok"
    THEN [c EXCEPT !.run = finished(c.run, "done", TRUE)]
    ELSE [c EXCEPT !.run = finished(fails(c, format).run, "rejected", FALSE)]

resume(c, outcome) ==
  CASE c.run.fn = "exportToAllFormats" -> resumeAllFormats(c, outcome)
    [] c.run.fn = "exportToSvg" -> resumeSvg(c, outcome)
    [] c.run.fn = "exportToPng" -> resumePng(c, outcome)
    [] c.run.fn = "exportToPowerPoint" -> resumeUncaught(c, "pptx", outcome)
    [] c.run.fn = "exportToHtml" -> resumeUncaught(c, "html", outcome)

----------------------------------------------------------------------------
(* The actions of the page                                                 *)

Outcomes == {"ok", "throws"}

(* values of window.scrollX and window.scrollY                             *)
ScrollOffsets == {0, 1}

(* the checkbox settings of the export dialog                              *)
FormatSelections == {{}, {"pptx", "html"}, {"html", "svg"}, Formats}

storeAndTemplates ==
  <<sections, selectedSectionId, selectedElementId, nextId, lastOp, calls, returned,
    slides, active>>

(* the export c was called by a handler                                    *)
Started(c) ==
  /\ runs' = Append(runs, c.run)
  /\ view' = c.view
  /\ alerts' = c.alerts

(* variant: the handler returns without a notice                           *)
Refused_Silent(notice) == UNCHANGED <<runs, view, alerts>>

(* a handler returned after an alert                                       *)
Refused(notice) ==
  /\ alerts' = Append(alerts, notice)
  /\ UNCHANGED <<runs, view>>

(* variant: the handler calls resetSelection before it exports             *)
Requested_ResetsSelection ==
  /\ requests < MaxExports
  /\ requests' = requests + 1
  /\ selectedSectionId' = Null
  /\ selectedElementId' = Null
  /\ UNCHANGED <<sections, nextId, lastOp, calls, returned, slides, active,
                  previewRef>>

(* a click on a handler of the Header                                      *)
Requested ==
  /\ requests < MaxExports
  /\ requests' = requests + 1
  /\ UNCHANGED <<storeAndTemplates, previewRef>>

(* React attaches the preview element to previewRef                        *)
mountPreview ==
  /\ ~previewRef
  /\ previewRef' = TRUE
  /\ UNCHANGED <<storeAndTemplates, view, runs, alerts, requests>>

(* the user scrolls the page                                               *)
scrollPage(x, y) ==
  /\ <<x, y>> # <<view.scrollX, view.scrollY>>
  /\ view' = scrollTo(view, x, y)
  /\ UNCHANGED <<storeAndTemplates, previewRef, runs, alerts, requests>>

(* variant: an empty selection is exported like any other                  *)
handleExport_AnySelection(selectedFormats) ==
  /\ Requested
  /\ IF ~previewRef THEN Refused("preview not loaded")
     ELSE Started(exportToAllFormats(view, alerts, selectedFormats))

(* selectedFormats is state of the Header that only handleFormatChange     *)
(* writes and only handleExport reads: the selection a click on the export *)
(* button finds is whatever the checkboxes were set to before it           *)
handleExport(selectedFormats) ==
  /\ Requested
  /\ IF ~previewRef THEN Refused("preview not loaded")
     ELSE IF selectedFormats = {} THEN Refused("select a format")
     ELSE Started(exportToAllFormats(view, alerts, selectedFormats))

handleSingleFormatExport(format) ==
  /\ Requested
  /\ IF ~previewRef THEN Refused("preview not loaded")
     ELSE CASE format = "pptx" -> Started(exportToPowerPoint(view, alerts))
            [] format = "html" -> Started(exportToHtml(view, alerts))
            [] format = "svg" -> Started(exportToSvg(view, alerts))
            [] format = "png" -> Started(exportToPng(view, alerts))

(* the library promise that run i awaits settles                           *)
settle(i, outcome) ==
  /\ InFlight(runs[i])
  /\ LET c == resume(Ctx(runs[i], view, alerts), outcome) IN
       /\ runs' = [runs EXCEPT ![i] = c.run]
       /\ view' = c.view
       /\ alerts' = c.alerts
  /\ UNCHANGED <<storeAndTemplates, previewRef, requests>>

(* the exports as the handlers start them, also while others are          *)
(* suspended, on a page that is not scrolled                               *)
ExportNext ==
  \/ mountPreview
  \/ \E selectedFormats \in FormatSelections : handleExport(selectedFormats)
  \/ \E format \in Formats : handleSingleFormatExport(format)
  \/ \E i \in 1..Len(runs), outcome \in Outcomes : settle(i, outcome)

ExportSpec == Init /\ [][ExportNext]_vars

(* the exports one at a time, each started when no other is suspended, on  *)
(* a page the user scrolls                                                 *)
NoneInFlight == \A i \in 1..Len(runs) : ~InFlight(runs[i])

SoloNext ==
  \/ mountPreview
  \/ \E x \in ScrollOffsets, y \in ScrollOffsets : scrollPage(x, y)
  \/ \E selectedFormats \in FormatSelections :
        NoneInFlight /\ handleExport(selectedFormats)
  \/ \E format \in Formats : NoneInFlight /\ handleSingleFormatExport(format)
  \/ \E i \in 1..Len(runs), outcome \in Outcomes : settle(i, outcome)

SoloSpec == Init /\ [][SoloNext]_vars

----------------------------------------------------------------------------
(* Properties of the exports                                               *)

(* the runs of exportToAllFormats                                          *)
Bundles == {i \in 1..Len(runs) : runs[i].fn = "exportToAllFormats"}

Entries(zip) == {zip[k] : k \in 1..Len(zip)}

(* the archive path the specification gives to a format                    *)
PathOf(format) ==
  CASE format = "html" -> "html/index.html"
    [] format = "pptx" -> "pptx/presentation.pptx"
    [] format = "svg" -> "svg/export.svg"
    [] format = "png" -> "png/export.png"

(* C14: a bundle export that has finished with none of its producers       *)
(* having thrown has downloaded an archive with exactly one entry for each *)
(* selected format, under the path of that format, and no other entry; for *)
(* the selection {html, svg} the archive is [html/index.html,              *)
(* svg/export.svg].                                                        *)
C14_BundleHoldsSelectedFormats ==
  \A i \in Bundles :
     (runs[i].pc = "done" /\ runs[i].failed = {}) =>
       /\ runs[i].downloaded
       /\ Len(runs[i].zip) = Cardinality(runs[i].formats)
       /\ Entries(runs[i].zip) = {PathOf(format) : format \in runs[i].formats}
       /\ runs[i].formats = {"html", "svg"}
            => runs[i].zip = <<"html/index.html", "svg/export.svg">>

(* a bundle export of {html, svg} has downloaded its archive with both     *)
(* entries, none of its producers having thrown                            *)
C14_Witness ==
  \E i \in Bundles :
     /\ runs[i].formats = {"html", "svg"}
     /\ runs[i].pc = "done"
     /\ runs[i].downloaded
     /\ runs[i].failed = {}
     /\ Len(runs[i].zip) = 2

(* C15: a bundle export that has returned after one or more of its         *)
(* producers threw is not rejected: it has downloaded its archive, which   *)
(* holds the entry of every selected format but those whose producer       *)
(* threw.                                                                  *)
C15_BundleSurvivesProducerFailure ==
  \A i \in Bundles :
     (~InFlight(runs[i]) /\ runs[i].failed # {}) =>
       /\ runs[i].pc = "done"
       /\ runs[i].downloaded
       /\ Entries(runs[i].zip)
            = {PathOf(format) : format \in runs[i].formats \ runs[i].failed}

(* the format an archive entry belongs to                                  *)
FormatOf(path) == CHOOSE format \in Formats : PathOf(format) = path

(* the producer a bundle export is suspended in; "archive" once all        *)
(* producers are through                                                   *)
ProducerAt(pc) ==
  CASE pc = "pptx.write" -> "pptx"
    [] pc \in {"toSvg", "html2canvas", "fetch svg"} -> "svg"
    [] pc \in {"toPng", "fetch png"} -> "png"
    [] OTHER -> "archive"

(* position of a producer in the sequence order                            *)
PositionIn(order, producer) ==
  CHOOSE k \in 1..Len(order) : order[k] = producer

(* the producers of every bundle export run in the sequence order: the     *)
(* entries in the archive stand in that order, and all of them belong to   *)
(* producers that come before the one the export is suspended in           *)
RunsInOrder(order) ==
  \A i \in Bundles :
     LET zip == runs[i].zip
         at(k) == PositionIn(order, FormatOf(zip[k]))
     IN /\ \A k \in 1..Len(zip) :
              at(k) < PositionIn(order, ProducerAt(runs[i].pc))
        /\ \A k \in 1..Len(zip), l \in 1..Len(zip) : k < l => at(k) < at(l)

(* C16 as stated: the producers run one after another in the order         *)
(* document, markup, vector, raster.                                       *)
C16_ProducersInStatedOrder ==
  RunsInOrder(<<"pptx", "html", "svg", "png", "archive">>)

(* C16 amended: the producers run one after another in the order markup,   *)
(* document, vector, raster.                                               *)
C16_ProducersInCodeOrder ==
  RunsInOrder(<<"html", "pptx", "svg", "png", "archive">>)

(* a bundle export of all four formats has downloaded the archive with its *)
(* four entries                                                            *)
C16_Witness ==
  \E i \in Bundles :
     /\ runs[i].pc = "done"
     /\ runs[i].downloaded
     /\ runs[i].zip = <<"html/index.html", "pptx/presentation.pptx",
                        "svg/export.svg", "png/export.png">>

(* C17: a run suspended in toSvg goes on, when the promise settles, either *)
(* with the vector file or into the raster capture html2canvas, never into *)
(* a failure; when html2canvas returns, exportToSvg downloads the file and *)
(* the bundle export turns the wrapped image into the archive entry        *)
(* svg/export.svg, unless that conversion throws; no step of the vector    *)
(* producer rejects the export.                                            *)
C17_VectorFallsBackToRaster ==
  [][\A i \in 1..Len(runs) :
       LET before == runs[i]
           after == runs'[i]
           single == before.fn = "exportToSvg"
       IN
       /\ (before.pc = "toSvg" /\ after # before) =>
            \/ after.pc = "html2canvas" /\ after.fallback
            \/ single /\ after.pc = "done" /\ after.downloaded
            \/ ~single /\ after.pc = "fetch svg"
       /\ (before.pc = "html2canvas" /\ after # before /\ "svg" \notin after.failed) =>
            /\ before.fallback
            /\ single => after.pc = "done" /\ after.downloaded
            /\ ~single => after.pc = "fetch svg"
       /\ (before.pc = "fetch svg" /\ after # before /\ "svg" \notin after.failed) =>
            "svg/export.svg" \in Entries(after.zip)
       /\ before.pc \in {"toSvg", "html2canvas", "fetch svg"} =>
            after.pc # "rejected"]_vars

(* toSvg threw in an exportToSvg and in a bundle export; the first has     *)
(* downloaded its file, the second its archive with the vector entry       *)
C17_Witness ==
  /\ \E i \in 1..Len(runs) :
        /\ runs[i].fn = "exportToSvg"
        /\ runs[i].fallback
        /\ runs[i].downloaded
  /\ \E i \in Bundles :
        /\ runs[i].fallback
        /\ runs[i].downloaded
        /\ "svg/export.svg" \in Entries(runs[i].zip)

(* C18: when an exportToSvg or exportToPng that ran on its own returns,    *)
(* the inline width, height, overflow and position of the view are what    *)
(* they were at the call, and so are window.scrollX and window.scrollY.    *)
C18_CaptureRestoresView ==
  [][\A i \in 1..Len(runs) :
       (/\ runs[i].fn \in {"exportToSvg", "exportToPng"}
        /\ InFlight(runs[i])
        /\ ~InFlight(runs'[i])) =>
         /\ styleOf(view') = runs[i].original
         /\ view'.scrollY = runs[i].originalScrollTop
         /\ view'.scrollX = runs[i].scrollXAtCall]_vars

(* C19: a click on the bundle export or on a single-format export while    *)
(* previewRef.current is null starts no export and touches nothing but the *)
(* alerts, to which it adds the notice that the preview is not loaded.     *)
C19_NoExportWithoutPreview ==
  [][(~previewRef /\ requests' # requests) =>
       /\ runs' = runs
       /\ view' = view
       /\ alerts' = Append(alerts, "preview not loaded")]_vars

(* the bundle export and a single-format export were clicked before the    *)
(* preview was mounted                                                     *)
C19_Witness ==
  /\ ~previewRef
  /\ requests = 2
  /\ runs = <<>>
  /\ Len(alerts) = 2

(* C20 as stated: a click on the bundle export with no format selected     *)
(* starts no export and shows the prompt to select a format.               *)
C20_EmptySelectionPrompts ==
  [][handleExport({}) =>
       /\ runs' = runs
       /\ view' = view
       /\ alerts' = Append(alerts, "select a format")]_vars

(* C20 amended: a click on the bundle export with no format selected       *)
(* starts no export; it shows the prompt to select a format when the       *)
(* preview is mounted and the notice that the preview is not loaded when   *)
(* it is not.                                                              *)
C20_EmptySelectionRejected ==
  [][handleExport({}) =>
       /\ runs' = runs
       /\ view' = view
       /\ alerts' = Append(alerts, IF previewRef THEN "select a format"
                                                 ELSE "preview not loaded")]_vars

(* the bundle export was clicked with no format selected while the preview *)
(* was mounted                                                             *)
C20_Witness ==
  /\ previewRef
  /\ runs = <<>>
  /\ alerts = <<"select a format">>

(* the runs of the four single-format exports                              *)
Singles == {i \in 1..Len(runs) : runs[i].fn # "exportToAllFormats"}

(* C21: whenever the producer of a single-format export fails, a failure   *)
(* notice is shown to the user by that step, whichever of the four formats *)
(* was asked for.                                                          *)
C21_SingleFailureSurfaced ==
  [][\A i \in Singles :
       (runs[i].failed = {} /\ runs'[i].failed # {}) =>
         Len(alerts') = Len(alerts) + 1]_vars

----------------------------------------------------------------------------
(* The exports on an editor that holds content                             *)

(* the store after addSection('hero'), selectSection of the new section,   *)
(* addElement of a text element and selectElement of it                    *)
LoadedStore ==
  LET added == addSectionSet(State(<<>>, Null, Null), "hero", 1)
      selected == selectSectionSet(added, 1)
      filled == addElementSet(selected, 1, newElement("text", 2))
  IN selectElementSet(filled, 2)

LoadedInit ==
  /\ sections = LoadedStore.sections
  /\ selectedSectionId = LoadedStore.selectedSectionId
  /\ selectedElementId = LoadedStore.selectedElementId
  /\ nextId = 3
  /\ lastOp = [op |-> "selectElement", threw |-> FALSE]
  /\ calls = 4
  /\ returned = <<>>
  /\ previewRef = FALSE
  /\ view = [width |-> "", height |-> "", overflow |-> "", position |-> "",
             scrollX |-> 0, scrollY |-> 0]
  /\ runs = <<>>
  /\ alerts = <<>>
  /\ requests = 0
  /\ slides = <<>>
  /\ active = Null

(* the exports one at a time, on a page that is not scrolled               *)
LoadedNext ==
  \/ mountPreview
  \/ NoneInFlight /\ handleExport(Formats)
  \/ \E format \in Formats : NoneInFlight /\ handleSingleFormatExport(format)
  \/ \E i \in 1..Len(runs), outcome \in Outcomes : settle(i, outcome)

LoadedSpec == LoadedInit /\ [][LoadedNext]_vars

(* every operation of the store can be called                              *)
StoreOperationsEnabled ==
  /\ ENABLED addSection("hero")
  /\ ENABLED removeSection(1)
  /\ ENABLED updateSection(1, [title |-> <<"edited">>])
  /\ ENABLED moveSection(0, 0)
  /\ ENABLED selectSection(1)
  /\ ENABLED addElement(1, newElement("button", nextId))
  /\ ENABLED removeElement(1, 2)
  /\ ENABLED updateElement(1, 2, [content |-> "edited"])
  /\ ENABLED moveElement(1, 0, 0)
  /\ ENABLED selectElement(2)
  /\ ENABLED resetSelection

(* C22: no step of an export, whether it succeeds or fails, writes the     *)
(* store: sections, selectedSectionId and selectedElementId stay what they *)
(* were before the first export was requested, and once no export is       *)
(* suspended every store operation can be called.                          *)
C22_ExportLeavesStore ==
  /\ cur = LoadedStore
  /\ NoneInFlight => StoreOperationsEnabled

(* a bundle export has downloaded its archive and another export was       *)
(* rejected, with the section and its element in the store                 *)
C22_Witness ==
  /\ sections # <<>>
  /\ \E i \in Bundles : runs[i].pc = "done" /\ runs[i].downloaded
  /\ \E i \in 1..Len(runs) : runs[i].pc = "rejected"

----------------------------------------------------------------------------
(* Document generation: the slides exportToPowerPoint and the pptx step of *)
(* exportToAllFormats build from the sections.  Lengths are in hundredths  *)
(* of an inch, so that  parseInt(height) / 100  inches is parseInt(height) *)
(* hundredths, and 0.5 is 50.                                              *)

(* a JavaScript number: NaN, or a value                                    *)
Num(n) == [nan |-> FALSE, value |-> n]

NaN == [nan |-> TRUE, value |-> 0]

(* a + b                                                                   *)
plus(a, b) == IF a.nan \/ b.nan THEN NaN ELSE Num(a.value + b.value)

(* the strings of the model that start with a decimal numeral, and the     *)
(* integer parseInt reads from each                                        *)
numerals ==
  ("16" :> 16) @@ ("50" :> 50) @@ ("100" :> 100) @@ ("-100" :> -100) @@ ("12.5" :> 12)

(* parseInt(string, 10): NaN for a string that does not start with a       *)
(* numeral, such as 'auto' and ''                                          *)
parseInt(string) ==
  IF string \in DOMAIN numerals THEN Num(numerals[string]) ELSE NaN

(* yPosition += parseInt(element.height) / 100 + 0.5                       *)
advanceByImage(yPosition, element) ==
  plus(yPosition, plus(parseInt(element.height), Num(50)))

(* variant: the cursor is carried over from the slide before               *)
startOfSlide_CarriesOver(before) ==
  IF before = <<>> THEN Num(150) ELSE before[Len(before)].yPosition

(* let yPosition = 1.5                                                     *)
startOfSlide(before) == Num(150)

(* one pass of the switch over element.type: the slide objects so far and  *)
(* the cursor, after the element was handled; addImageThrows tells whether *)
(* slide.addImage throws                                                   *)
layoutElement(acc, element, addImageThrows) ==
  CASE element.type = "text" ->
         [objects |-> Append(acc.objects,
                             [kind |-> "text", of |-> element.id, y |-> acc.yPosition,
                              fontSize |-> parseInt(element.fontSize)]),
          yPosition |-> plus(acc.yPosition, Num(50))]
    [] element.type = "image" ->
         IF element.src = "" \/ addImageThrows THEN acc
         ELSE [objects |-> Append(acc.objects,
                                  [kind |-> "image", of |-> element.id,
                                   y |-> acc.yPosition,
                                   w |-> parseInt(element.width),
                                   h |-> parseInt(element.height)]),
               yPosition |-> advanceByImage(acc.yPosition, element)]
    [] element.type = "button" ->
         [objects |-> Append(acc.objects,
                             [kind |-> "text", of |-> element.id, y |-> acc.yPosition,
                              h |-> Num(50), fontSize |-> Num(12)]),
          yPosition |-> plus(acc.yPosition, Num(80))]
    [] OTHER -> acc

RECURSIVE layoutElements(_, _, _)
(* for (const element of section.elements)                                 *)
layoutElements(acc, elements, addImageThrows) ==
  IF elements = <<>> THEN acc
  ELSE layoutElements(layoutElement(acc, Head(elements), addImageThrows),
                      Tail(elements), addImageThrows)

(* pptx.addSlide() for a section: the background, the title at y 0.5, then *)
(* the elements from the start of the cursor; yPosition is the cursor      *)
(* after the last element                                                  *)
slideOf(section, before, addImageThrows) ==
  LET title == [kind |-> "text", of |-> Null, y |-> Num(50), fontSize |-> Num(24)]
      laid == layoutElements([objects |-> <<title>>, yPosition |-> startOfSlide(before)],
                             section.elements, addImageThrows)
  IN [background |-> section.backgroundColor, objects |-> laid.objects,
      yPosition |-> laid.yPosition]

RECURSIVE slidesOf(_, _, _)
(* for (const section of sections)                                         *)
slidesOf(before, secs, addImageThrows) ==
  IF secs = <<>> THEN before
  ELSE slidesOf(Append(before, slideOf(Head(secs), before, addImageThrows)),
                Tail(secs), addImageThrows)

(* the presentation is built from the sections of the store                *)
buildPresentation(addImageThrows) ==
  /\ calls < MaxCalls
  /\ calls' = calls + 1
  /\ lastOp' = [op |-> "exportToPowerPoint", threw |-> FALSE]
  /\ slides' = slidesOf(<<>>, sections, addImageThrows)
  /\ UNCHANGED <<store, nextId, returned, previewRef, view, runs, alerts, requests,
                  active>>

(* values written into the fields of an image: the height of the          *)
(* templates, the height field of the editor form cleared, negative or     *)
(* with a fraction, the URL cleared                                        *)
ImageUpdates ==
  {[height |-> "auto"], [height |-> ""], [height |-> "-100"], [height |-> "12.5"],
   [src |-> ""]}

(* ids of the image elements of the store                                  *)
ImageIdSet ==
  UNION {{sections[i].elements[j].id :
            j \in {k \in 1..Len(sections[i].elements) :
                     sections[i].elements[k].type = "image"}} :
           i \in 1..Len(sections)}

(* sections are added and filled in the editor, image fields are edited,   *)
(* and the presentation is built                                           *)
SlideNext ==
  \/ \E type \in SectionTypeArgs : addSection(type)
  \/ \E sectionId \in IdSet(sections), element \in NewElements :
        addElement(sectionId, element)
  \/ \E sectionId \in IdSet(sections), elementId \in ImageIdSet,
        updates \in ImageUpdates :
        updateElement(sectionId, elementId, updates)
  \/ \E addImageThrows \in BOOLEAN : buildPresentation(addImageThrows)

SlideSpec == Init /\ [][SlideNext]_vars

----------------------------------------------------------------------------
(* Properties of document generation                                       *)

(* the element of a section a slide object was made from                   *)
ElementOf(section, id) ==
  CHOOSE element \in {section.elements[j] : j \in 1..Len(section.elements)} :
     element.id = id

(* the numeric strings of an element parse to numbers                      *)
Parses(element) ==
  CASE element.type = "text" -> ~parseInt(element.fontSize).nan
    [] element.type = "image" ->
         ~parseInt(element.width).nan /\ ~parseInt(element.height).nan
    [] OTHER -> TRUE

(* the position and the sizes passed for a slide object are numbers        *)
DefinedNumbers(object) ==
  /\ ~object.y.nan
  /\ "w" \in DOMAIN object => ~object.w.nan
  /\ "h" \in DOMAIN object => ~object.h.nan
  /\ "fontSize" \in DOMAIN object => ~object.fontSize.nan

(* C23: the presentation gets one slide per section, and in every slide    *)
(* the position and the sizes passed for the title and for every element   *)
(* whose own numeric strings parse are defined numbers, whatever the other *)
(* elements of the section hold (an image height 'auto', say).             *)
C23_BadNumberStaysLocal ==
  [][lastOp'.op = "exportToPowerPoint" =>
       /\ Len(slides') = Len(sections)
       /\ \A k \in 1..Len(slides') :
             \A n \in 1..Len(slides'[k].objects) :
                LET object == slides'[k].objects[n] IN
                  (object.of = Null \/ Parses(ElementOf(sections[k], object.of)))
                    => DefinedNumbers(object)]_vars

(* the numeric strings of every element of a section parse                 *)
FieldsParse(section) ==
  \A j \in 1..Len(section.elements) : Parses(section.elements[j])

(* no image of a section has a height below zero                           *)
HeightsNotNegative(section) ==
  \A j \in 1..Len(section.elements) :
     section.elements[j].type = "image"
       => parseInt(section.elements[j].height).value >= 0

(* what the specification adds to the cursor for an element                *)
AdvanceFor(element) ==
  CASE element.type = "text" -> 50
    [] element.type = "button" -> 80
    [] element.type = "image" -> parseInt(element.height).value + 50

(* the cursor of a slide built for a section starts at 1.5 and, after each *)
(* element laid out, has grown by the advance for that element, which is   *)
(* more than nothing; no image with an empty src is laid out               *)
CursorDiscipline(section, slide) ==
  LET laid == Tail(slide.objects)
      at(n) == IF n <= Len(laid) THEN laid[n].y ELSE slide.yPosition
  IN /\ at(1) = Num(150)
     /\ \A n \in 1..Len(laid) :
           LET element == ElementOf(section, laid[n].of) IN
             /\ at(n + 1) = plus(at(n), Num(AdvanceFor(element)))
             /\ at(n + 1).value > at(n).value
             /\ element.type = "image" => element.src # ""

(* C27 as stated: in every slide built for a section whose numeric strings *)
(* parse, the cursor starts at 1.5 whatever the slides before, and grows   *)
(* after every element laid out: by 0.5 for a text, 0.8 for a button,      *)
(* height/100 + 0.5 for an image; an image with an empty src is not laid   *)
(* out and does not move the cursor.                                       *)
C27_CursorGrowsWhenFieldsParse ==
  [][lastOp'.op = "exportToPowerPoint" =>
       \A k \in 1..Len(sections) :
          FieldsParse(sections[k]) => CursorDiscipline(sections[k], slides'[k])]_vars

(* C27 amended: the same for every section whose numeric strings parse and *)
(* whose image heights are not negative.                                   *)
C27_CursorGrowsWhenHeightsNotNegative ==
  [][lastOp'.op = "exportToPowerPoint" =>
       \A k \in 1..Len(sections) :
          (FieldsParse(sections[k]) /\ HeightsNotNegative(sections[k]))
            => CursorDiscipline(sections[k], slides'[k])]_vars

(* a presentation of two slides was built, the first with an image laid    *)
(* out under the title, the second with its cursor at 1.5                  *)
C27_Witness ==
  /\ lastOp.op = "exportToPowerPoint"
  /\ Len(slides) = 2
  /\ Len(slides[1].objects) = 2
  /\ slides[1].objects[2].kind = "image"
  /\ slides[1].yPosition.value > 150
  /\ slides[2].yPosition = Num(150)

----------------------------------------------------------------------------
(* Properties of the view captures                                         *)

(* the awaits at which a capture of the view is in flight                  *)
CapturePcs == {"toSvg", "html2canvas", "toPng"}

(* C24: when bundle exports, each run on its own, have finished, the       *)
(* inline width, height, overflow and position of the view are what they   *)
(* were before the first of them started, also when toPng threw or when    *)
(* toSvg and html2canvas both threw.                                       *)
C24_BundleRestoresView ==
  (NoneInFlight /\ Bundles = 1..Len(runs)) => styleOf(view) = NoStyle

(* C25: at no instant are two captures of the view in flight.              *)
C25_OneCaptureAtATime ==
  Cardinality({i \in 1..Len(runs) : runs[i].pc \in CapturePcs}) <= 1

(* the exports that capture the view and put its styles back when they run *)
(* on their own: exportToSvg, exportToPng, and a bundle export with svg or *)
(* png selected, none of whose producers threw                             *)
RestoringCaptures ==
  {i \in 1..Len(runs) :
     /\ runs[i].formats \cap {"svg", "png"} # {}
     /\ runs[i].fn = "exportToAllFormats" => runs[i].failed = {}}

(* C26: once exports that capture the view have all completed, in whatever *)
(* order their awaits were resumed, the inline width, height, overflow and *)
(* position of the view are what they were before the first started.       *)
C26_InterleavedCapturesRestoreView ==
  (NoneInFlight /\ RestoringCaptures = 1..Len(runs)) => styleOf(view) = NoStyle

----------------------------------------------------------------------------
(* Properties of removeElement, moveElement and the drag handler           *)

(* C28: a removeElement(sectionId, elementId) step leaves sections,        *)
(* selectedSectionId and selectedElementId as they were when sectionId     *)
(* names no section or that section holds no element with elementId;       *)
(* otherwise it changes only the element list of the named section, and    *)
(* changes the element selection only from elementId to null.              *)
C28_RemoveElementNoOpUnlessPresent ==
  [][lastOp'.op = "removeElement" =>
       \A sectionId \in SectionIdArgs, elementId \in ElementIdArgs :
          removeElement(sectionId, elementId) =>
            IF elementId \in ElementIdsIn(sections, sectionId)
              THEN /\ Len(sections') = Len(sections)
                   /\ \A i \in 1..Len(sections) :
                         IF IdsOf(sections)[i] = sectionId
                           THEN \A field \in DOMAIN sections[i] \ {"elements"} :
                                   sections'[i][field] = sections[i][field]
                           ELSE sections'[i] = sections[i]
                   /\ selectedSectionId' = selectedSectionId
                   /\ selectedElementId' # selectedElementId =>
                        selectedElementId = elementId /\ selectedElementId' = Null
              ELSE UNCHANGED store]_vars

(* the element list of the first section with the id sectionId             *)
ElementsOf(secs, sectionId) == secs[findIndex(secs, sectionId) + 1].elements

(* C29: a moveElement(sectionId, fromIndex, toIndex) step with a sectionId *)
(* that names no section changes nothing in the store; with both indices   *)
(* in range it puts the element formerly at fromIndex at toIndex and keeps *)
(* the others in their order, and leaves the order of sections, the        *)
(* elements of every other section and the selection as they were; with an *)
(* index out of range the element list keeps its length and every entry of *)
(* it is an element.                                                       *)
C29_MoveElementPermutesOneList ==
  [][lastOp'.op = "moveElement" =>
       \A sectionId \in SectionIdArgs :
          \A fromIndex \in ElementIndices(sectionId),
             toIndex \in ElementIndices(sectionId) :
             (moveElement(sectionId, fromIndex, toIndex) /\ ~HasUndefined(sections)) =>
               IF sectionId \notin IdSet(sections) THEN UNCHANGED store
               ELSE LET old == ElementsOf(sections, sectionId)
                        new == ElementsOf(sections', sectionId)
                    IN /\ IdsOf(sections') = IdsOf(sections)
                       /\ UNCHANGED <<selectedSectionId, selectedElementId>>
                       /\ \A i \in 1..Len(sections) :
                             i # findIndex(sections, sectionId) + 1
                               => sections'[i] = sections[i]
                       /\ (InRange(fromIndex, old) /\ InRange(toIndex, old)) =>
                            new = RefMove(old, fromIndex, toIndex)
                       /\ ~(InRange(fromIndex, old) /\ InRange(toIndex, old)) =>
                            /\ Len(new) = Len(old)
                            /\ ~HasUndefined(old) => ~HasUndefined(new)]_vars

----------------------------------------------------------------------------
(* The section list (SectionsList): its add menu, the delete button of an  *)
(* item, and the drag of an item.  The DndContext holds the id of the item *)
(* being dragged from the start of the drag to its end.                    *)

(* the drag handle of the item of section id is picked up                  *)
dragStart(id) ==
  /\ active = Null
  /\ active' = id
  /\ UNCHANGED <<store, nextId, lastOp, calls, returned, previewRef, view, runs,
                 alerts, requests, slides>>

(* the item is dropped: over is the id of the item under it, null when     *)
(* there is none                                                           *)
handleDragEnd(over) ==
  /\ active # Null
  /\ active' = Null
  /\ IF over # Null /\ active # over
       THEN /\ calls < MaxCalls
            /\ calls' = calls + 1
            /\ lastOp' = [op |-> "moveSection", threw |-> FALSE]
            /\ Commit(moveSectionSet(cur, findIndex(sections, active),
                                     findIndex(sections, over)))
       ELSE UNCHANGED <<store, lastOp, calls>>
  /\ UNCHANGED <<nextId, returned, previewRef, view, runs, alerts, requests, slides>>

(* the drop targets: the items of the list as it is at the drop            *)
DropTargets == IdSet(sections) \cup {Null}

ListNext ==
  \/ \E type \in SectionTypeArgs : addSection(type)
  \/ \E id \in IdSet(sections) : removeSection(id)
  \/ \E id \in IdSet(sections) : selectSection(id)
  \/ \E id \in IdSet(sections) : dragStart(id)
  \/ \E over \in DropTargets : handleDragEnd(over)

ListSpec == Init /\ [][ListNext]_vars

(* C30: a handleDragEnd step calls moveSection only when there is a drop   *)
(* target that differs from the dragged item, and then both indices are    *)
(* positions of sections of the store, the dragged section ends at the     *)
(* index the drop target had, and the list is a permutation of the one     *)
(* before.                                                                 *)
C30_DragEndMovesDraggedSection ==
  [][\A over \in DropTargets :
       handleDragEnd(over) =>
         IF over # Null /\ active # over
           THEN /\ InRange(findIndex(sections, active), sections)
                /\ InRange(findIndex(sections, over), sections)
                /\ IdsOf(sections')[findIndex(sections, over) + 1] = active
                /\ Len(sections') = Len(sections)
                /\ IdSet(sections') = IdSet(sections)
           ELSE UNCHANGED store]_vars

====
